---- MODULE Spec2Model ----
(***************************************************************************)
(* Model of sqlite_orm's row_extractor family (dev/row_extractor.h): the   *)
(* codecs that turn a value coming from SQLite (column text handed to a    *)
(* sqlite3_exec callback, a column of a prepared statement, or a boxed     *)
(* sqlite3_value) into a C++ value.                                        *)
(*                                                                         *)
(* Text is a sequence of bytes (0..255).  TLC's integers are 32 bits wide, *)
(* so the C integer widths are scaled down: int has IntBits bits and       *)
(* sqlite3_int64 / long long has 2 * IntBits bits.                         *)
(***************************************************************************)
EXTENDS Integers, Sequences, FiniteSets, TLC

\* width of C int in the model (two's complement)
IntBits == 7
\* largest number of columns of a result row
MaxCols == 2
\* largest number of rows sqlite3_exec hands to a callback
MaxRows == 2

VARIABLES stmt, V, column, res, data, ret, rows

vars == <<stmt, V, column, res, data, ret, rows>>

(***************************************************************************)
(* Integer widths                                                          *)
(***************************************************************************)
BigBits == 2 * IntBits
IntMax == 2^(IntBits - 1) - 1
IntMin == -(2^(IntBits - 1))
BigMax == 2^(BigBits - 1) - 1
BigMin == -(2^(BigBits - 1))

Abs(n) == IF n < 0 THEN -n ELSE n
Min(a, b) == IF a < b THEN a ELSE b

\* conversion of a 64-bit integer to int: the low IntBits bits
WrapInt(n) == ((n - IntMin) % 2^IntBits) + IntMin
\* conversion to unsigned int
WrapUnsigned(n) == n % 2^IntBits
ClampInt(n) == IF n > IntMax THEN IntMax ELSE IF n < IntMin THEN IntMin ELSE n
ClampBig(n) == IF n > BigMax THEN BigMax ELSE IF n < BigMin THEN BigMin ELSE n

(***************************************************************************)
(* Bytes and C strings                                                     *)
(***************************************************************************)
IsSpace(c) == c \in {32, 9, 10, 11, 12, 13}
IsDigit(c) == c \in 48..57

\* a const char*: the null pointer, or a pointer to the bytes before the
\* terminating zero byte
NullText == [null |-> TRUE, chars |-> <<>>]

RECURSIVE UpToNul(_)
UpToNul(bytes) ==
    IF bytes = <<>> \/ Head(bytes) = 0 THEN <<>>
    ELSE <<Head(bytes)>> \o UpToNul(Tail(bytes))

\* the C string a pointer to `bytes` (zero-terminated by the engine) denotes
CText(bytes) == [null |-> FALSE, chars |-> UpToNul(bytes)]

\* ::strlen
strlen(text) == Len(text.chars)

RECURSIVE Digits(_)
Digits(n) ==
    IF n < 10 THEN <<48 + n>> ELSE Append(Digits(n \div 10), 48 + (n % 10))

\* "%lld"
RenderInt(n) == IF n < 0 THEN <<45>> \o Digits(-n) ELSE Digits(n)

RECURSIVE SkipSpace(_, _)
SkipSpace(s, i) ==
    IF i <= Len(s) /\ IsSpace(s[i]) THEN SkipSpace(s, i + 1) ELSE i

\* run of decimal digits from position i: the number (saturating one past
\* the 64-bit range), how many digits, and the position after them
RECURSIVE DigitRun(_, _, _, _)
DigitRun(s, i, acc, cnt) ==
    IF i <= Len(s) /\ IsDigit(s[i])
    THEN DigitRun(s, i + 1, Min(acc * 10 + (s[i] - 48), BigMax + 2), cnt + 1)
    ELSE [n |-> acc, cnt |-> cnt, next |-> i]

\* optional sign at position i
SignAt(s, i) ==
    IF i <= Len(s) /\ s[i] = 45 THEN [neg |-> TRUE, next |-> i + 1]
    ELSE IF i <= Len(s) /\ s[i] = 43 THEN [neg |-> FALSE, next |-> i + 1]
    ELSE [neg |-> FALSE, next |-> i]

\* the integer a decimal prefix denotes (white space, sign, digits), exact
\* up to one past the 64-bit range; 0 when there is no digit
IntPrefix(s) ==
    LET sg == SignAt(s, SkipSpace(s, 1))
        run == DigitRun(s, sg.next, 0, 0)
    IN IF sg.neg THEN -run.n ELSE run.n

(***************************************************************************)
(* Floating point.  A double is modelled as the decimal m * 10^e in        *)
(* normal form (m = 0 and e = 0, or m not divisible by 10).  The values    *)
(* of the model have few digits, so no rounding takes place.               *)
(***************************************************************************)
RECURSIVE Norm(_, _)
Norm(m, e) ==
    IF m = 0 THEN [m |-> 0, e |-> 0]
    ELSE IF m % 10 = 0 THEN Norm(m \div 10, e + 1)
    ELSE [m |-> m, e |-> e]

RealZero == Norm(0, 0)

\* (double)i
IntToReal(i) == Norm(i, 0)

\* p * 10^k, saturating one past the 64-bit range
RECURSIVE SatMul10(_, _)
SatMul10(p, k) ==
    IF k <= 0 THEN Min(p, BigMax + 2)
    ELSE IF p > BigMax THEN BigMax + 2
    ELSE SatMul10(p * 10, k - 1)

\* p \div 10^k
RECURSIVE Div10(_, _)
Div10(p, k) == IF k <= 0 \/ p = 0 THEN p ELSE Div10(p \div 10, k - 1)

\* truncation toward zero of a double, saturating one past the 64-bit range
RealTrunc(r) ==
    LET q == IF r.e >= 0 THEN SatMul10(Abs(r.m), r.e) ELSE Div10(Abs(r.m), -r.e)
    IN IF r.m < 0 THEN -q ELSE q

\* run of decimal digits continuing the mantissa acc
RECURSIVE MantRun(_, _, _, _)
MantRun(s, i, acc, cnt) ==
    IF i <= Len(s) /\ IsDigit(s[i])
    THEN MantRun(s, i + 1, acc * 10 + (s[i] - 48), cnt + 1)
    ELSE [n |-> acc, cnt |-> cnt, next |-> i]

\* the double a decimal prefix denotes: white space, sign, digits, an
\* optional fraction, an optional exponent; 0.0 when there is no digit
RealPrefix(s) ==
    LET sg == SignAt(s, SkipSpace(s, 1))
        ip == MantRun(s, sg.next, 0, 0)
        hasDot == ip.next <= Len(s) /\ s[ip.next] = 46
        fp == IF hasDot THEN MantRun(s, ip.next + 1, ip.n, 0)
              ELSE [n |-> ip.n, cnt |-> 0, next |-> ip.next]
        hasE == fp.next <= Len(s) /\ s[fp.next] \in {101, 69}
        es == SignAt(s, fp.next + 1)
        ed == MantRun(s, es.next, 0, 0)
        ex == IF hasE /\ ed.cnt > 0 THEN (IF es.neg THEN -ed.n ELSE ed.n) ELSE 0
    IN IF ip.cnt + fp.cnt = 0 THEN RealZero
       ELSE Norm(IF sg.neg THEN -fp.n ELSE fp.n, ex - fp.cnt)

RECURSIVE Zeros(_)
Zeros(k) == IF k <= 0 THEN <<>> ELSE <<48>> \o Zeros(k - 1)

\* "%!.15g": the shortest decimal, always with a decimal point, in exponent
\* notation when the decimal exponent is below -4
RenderReal(r) ==
    LET d == Digits(Abs(r.m))
        k == Len(d)
        x == k - 1 + r.e
        sign == IF r.m < 0 THEN <<45>> ELSE <<>>
        frac(ds) == IF ds = <<>> THEN <<48>> ELSE ds
    IN IF r.m = 0 THEN <<48, 46, 48>>
       ELSE IF x < -4
       THEN sign \o <<d[1], 46>> \o frac(SubSeq(d, 2, k)) \o <<101, 45>>
                 \o (IF -x < 10 THEN <<48>> ELSE <<>>) \o Digits(-x)
       ELSE IF x < 0
       THEN sign \o <<48, 46>> \o Zeros(-x - 1) \o d
       ELSE sign \o (IF k >= x + 1 THEN SubSeq(d, 1, x + 1) ELSE d \o Zeros(x + 1 - k))
                 \o <<46>> \o frac(SubSeq(d, x + 2, k))

(***************************************************************************)
(* SQLite's dynamically typed values.  A value has one of the five storage *)
(* classes; a value bound with sqlite3_bind_pointer() is NULL to SQL and   *)
(* carries a pointer and its type tag.                                     *)
(***************************************************************************)
NoTag == "none"

NullCell == [type |-> "NULL", i |-> 0, r |-> RealZero, z |-> <<>>, ptr |-> 0, tag |-> NoTag]
IntCell(n) == [NullCell EXCEPT !.type = "INTEGER", !.i = n]
RealCell(m, e) == [NullCell EXCEPT !.type = "FLOAT", !.r = Norm(m, e)]
TextCell(bytes) == [NullCell EXCEPT !.type = "TEXT", !.z = bytes]
BlobCell(bytes) == [NullCell EXCEPT !.type = "BLOB", !.z = bytes]
PointerCell(p, tag) == [NullCell EXCEPT !.ptr = p, !.tag = tag]

\* the bytes of the value converted to text (UTF-8)
CellBytes(c) ==
    CASE c.type = "INTEGER" -> RenderInt(c.i)
      [] c.type = "FLOAT" -> RenderReal(c.r)
      [] c.type \in {"TEXT", "BLOB"} -> c.z
      [] OTHER -> <<>>

\* sqlite3_column_type / sqlite3_value_type
sqlite3_type(c) == c.type

\* sqlite3_column_text / sqlite3_value_text, and argv[i] of sqlite3_exec
sqlite3_text(c) == IF c.type = "NULL" THEN NullText ELSE CText(CellBytes(c))

\* sqlite3_column_int64 / sqlite3_value_int64
sqlite3_int64(c) ==
    CASE c.type = "INTEGER" -> c.i
      [] c.type = "FLOAT" -> ClampBig(RealTrunc(c.r))
      [] c.type \in {"TEXT", "BLOB"} -> ClampBig(IntPrefix(c.z))
      [] OTHER -> 0

\* sqlite3_column_int / sqlite3_value_int: the low bits of the 64-bit value
sqlite3_int(c) == WrapInt(sqlite3_int64(c))

\* sqlite3_column_double / sqlite3_value_double
sqlite3_double(c) ==
    CASE c.type = "INTEGER" -> IntToReal(c.i)
      [] c.type = "FLOAT" -> c.r
      [] c.type \in {"TEXT", "BLOB"} -> RealPrefix(c.z)
      [] OTHER -> RealZero

\* sqlite3_column_blob / sqlite3_value_blob with sqlite3_column_bytes /
\* sqlite3_value_bytes: the byte range [bytes, bytes + len)
sqlite3_blob(c) == CellBytes(c)

\* sqlite3_value_pointer(value, type): the pointer when the tags match
sqlite3_value_pointer(c, tag) == IF c.ptr # 0 /\ c.tag = tag THEN c.ptr ELSE 0

\* column columnIndex (from 0) of the statement's current row
Column(row, i) == IF i + 1 \in DOMAIN row THEN row[i + 1] ELSE NullCell

\* the argv of a sqlite3_exec callback for the row
Argv(row) == [i \in 1..Len(row) |-> sqlite3_text(row[i])]

(***************************************************************************)
(* C++ types, values and the outcome of a call                             *)
(***************************************************************************)
\* a type: its kind, its template arguments, and a pointer_arg's type tag
Type(k) == [k |-> k, of |-> <<>>, tag |-> NoTag]
Wrapper(k, T) == [k |-> k, of |-> <<T>>, tag |-> NoTag]
TupleOf(Ts) == [k |-> "tuple", of |-> Ts, tag |-> NoTag]
PointerArg(tag) == [k |-> "pointer_arg", of |-> <<>>, tag |-> tag]

IntOrSmallerTypes == {"bool", "int", "unsigned"}
BigintTypes == {"long long"}
RealTypes == {"double"}
ArithmeticTypes == IntOrSmallerTypes \cup BigintTypes \cup RealTypes
StringTypes == {"string", "derived_string"}
SmartPointers == {"unique_ptr", "shared_ptr"}

\* arithmetic_tag_t<V>
arithmetic_tag(k) ==
    IF k \in RealTypes THEN "real_tag"
    ELSE IF k \in BigintTypes THEN "bigint_tag"
    ELSE "int_or_smaller_tag"

\* a C++ value: t names its type; n holds an integer, a pointer or a
\* has-value flag, r a double, s characters or bytes, xs contained values
NoVal == [t |-> "none", n |-> 0, r |-> RealZero, s |-> <<>>, xs |-> <<>>]
NumVal(k, n) == [NoVal EXCEPT !.t = k, !.n = n]
RealVal(k, r) == [NoVal EXCEPT !.t = k, !.r = r]
SeqVal(k, s) == [NoVal EXCEPT !.t = k, !.s = s]
Absent(k) == [NoVal EXCEPT !.t = k]
Present(k, v) == [NoVal EXCEPT !.t = k, !.n = 1, !.xs = <<v>>]
TupleVal(vs) == [NoVal EXCEPT !.t = "tuple", !.xs = vs]

\* static_cast<V>(n) of an integer n
static_cast(k, n) ==
    CASE k = "bool" -> NumVal(k, IF n = 0 THEN 0 ELSE 1)
      [] k = "unsigned" -> NumVal(k, WrapUnsigned(n))
      [] OTHER -> NumVal(k, n)

\* how a call ends: it returns val, it throws std::system_error or another
\* exception (err), it crashes, or it is rejected by the compiler because
\* the overload is deleted or missing
Ok(v) == [st |-> "ok", val |-> v, err |-> "none"]
Throw(e) == [st |-> "throw", val |-> NoVal, err |-> e]
Crash == [st |-> "crash", val |-> NoVal, err |-> "none"]
IllFormed == [st |-> "ill_formed", val |-> NoVal, err |-> "none"]

\* one invocation of a contained type's row_extractor: the type, the
\* overload, whether the text pointer or value it got was NULL, the column
Call(T, path, isNull, idx) == [V |-> T, path |-> path, null |-> isNull, idx |-> idx]

\* the result of an extract: its outcome and the invocations it made
Result(o) == [out |-> o, calls |-> <<>>]
Results(os) == {Result(o) : o \in os}

(***************************************************************************)
(* The C library's numeric parsers                                         *)
(***************************************************************************)
\* atoi: undefined for a null pointer (a crash, or 0 from a checking
\* runtime) and for a number that does not fit an int (the low bits of the
\* long, or saturation)
atoi(columnText) ==
    IF columnText.null THEN {Crash, Ok(NumVal("int", 0))}
    ELSE LET n == IntPrefix(columnText.chars)
         IN IF n >= IntMin /\ n <= IntMax THEN {Ok(NumVal("int", n))}
            ELSE {Ok(NumVal("int", WrapInt(ClampBig(n)))), Ok(NumVal("int", ClampInt(n)))}

\* atoll: undefined for a null pointer; saturates
atoll(columnText) ==
    IF columnText.null THEN {Crash, Ok(NumVal("long long", 0))}
    ELSE {Ok(NumVal("long long", ClampBig(IntPrefix(columnText.chars))))}

\* atof: undefined for a null pointer
atof(columnText) ==
    IF columnText.null THEN {Crash, Ok(RealVal("double", RealZero))}
    ELSE {Ok(RealVal("double", RealPrefix(columnText.chars)))}

(***************************************************************************)
(* Text encodings                                                          *)
(***************************************************************************)
IsCont(s, i) == i <= Len(s) /\ s[i] \in 128..191

\* the UTF-16 code units of one code point
Utf16Units(cp) ==
    IF cp < 65536 THEN <<cp>>
    ELSE <<55296 + ((cp - 65536) \div 1024), 56320 + ((cp - 65536) % 1024)>>

\* the UTF-8 sequence starting at s[i]: its code point and length, or
\* len = 0 when it is malformed
Utf8At(s, i) ==
    LET c == s[i]
    IN IF c < 128 THEN [cp |-> c, len |-> 1]
       ELSE IF c \in 194..223 /\ IsCont(s, i + 1)
       THEN [cp |-> (c - 192) * 64 + (s[i + 1] - 128), len |-> 2]
       ELSE IF c \in 224..239 /\ IsCont(s, i + 1) /\ IsCont(s, i + 2)
               /\ (c - 224) * 4096 + (s[i + 1] - 128) * 64 >= 2048
       THEN [cp |-> (c - 224) * 4096 + (s[i + 1] - 128) * 64 + (s[i + 2] - 128), len |-> 3]
       ELSE IF c \in 240..244 /\ IsCont(s, i + 1) /\ IsCont(s, i + 2) /\ IsCont(s, i + 3)
               /\ (c - 240) * 262144 + (s[i + 1] - 128) * 4096 \in 65536..1114111
       THEN [cp |-> (c - 240) * 262144 + (s[i + 1] - 128) * 4096
                       + (s[i + 2] - 128) * 64 + (s[i + 3] - 128), len |-> 4]
       ELSE [cp |-> 65533, len |-> 0]

\* UTF-8 to UTF-16 from position i; a malformed sequence ends the
\* conversion with ok = FALSE when strict, and becomes U+FFFD otherwise
RECURSIVE Utf8ToUtf16(_, _, _)
Utf8ToUtf16(s, i, strict) ==
    IF i > Len(s) THEN [ok |-> TRUE, units |-> <<>>]
    ELSE LET u == Utf8At(s, i)
         IN IF u.len = 0 /\ strict THEN [ok |-> FALSE, units |-> <<>>]
            ELSE LET rest == Utf8ToUtf16(s, i + (IF u.len = 0 THEN 1 ELSE u.len), strict)
                 IN [ok |-> rest.ok, units |-> Utf16Units(u.cp) \o rest.units]

\* std::wstring_convert<std::codecvt_utf8_utf16<wchar_t>>::from_bytes: throws
\* std::range_error when the bytes are not UTF-8
from_bytes(columnText) ==
    LET c == Utf8ToUtf16(columnText.chars, 1, TRUE)
    IN IF c.ok THEN Ok(SeqVal("wstring", c.units)) ELSE Throw("range_error")

\* sqlite3_value_text16: null for NULL, else the UTF-16 code units of the text
sqlite3_text16(c) ==
    IF c.type = "NULL" THEN [null |-> TRUE, chars |-> <<>>]
    ELSE [null |-> FALSE, chars |-> Utf8ToUtf16(UpToNul(CellBytes(c)), 1, FALSE).units]

\* a UTF-16 buffer read through a 32-bit wchar_t*: two code units make one
\* wchar_t, up to the first wchar_t that is zero
RECURSIVE FuseUnits(_)
FuseUnits(u) ==
    IF u = <<>> THEN <<>>
    ELSE LET hi == IF Len(u) >= 2 THEN u[2] ELSE 0
             w == u[1] + 65536 * (IF hi >= 32768 THEN hi - 65536 ELSE hi)
         IN <<w>> \o FuseUnits(IF Len(u) >= 2 THEN SubSeq(u, 3, Len(u)) ELSE <<>>)

\* std::wstring from (const wchar_t*)text16: the code units where wchar_t
\* has 16 bits; where it has 32 bits the read runs over the buffer's end
\* (undefined: fused units, or a crash)
WStringFromText16(text16) ==
    {Ok(SeqVal("wstring", text16.chars)), Ok(SeqVal("wstring", FuseUnits(text16.chars))), Crash}

(***************************************************************************)
(* journal_mode                                                            *)
(***************************************************************************)
Letters == [a |-> 97, b |-> 98, d |-> 100, e |-> 101, f |-> 102, g |-> 103,
            l |-> 108, o |-> 111, s |-> 115, t |-> 116, u |-> 117, w |-> 119]

\* the bytes of a word given as its letters
Bytes(letters) == [i \in 1..Len(letters) |-> Letters[letters[i]]]

JournalModeNames == {Bytes(<<"w", "a", "l">>), Bytes(<<"o", "f", "f">>),
                     Bytes(<<"d", "e", "l", "e", "t", "e">>)}

\* internal::journal_mode_from_string: the mode, or nothing
journal_mode_from_string(chars) ==
    IF chars \in JournalModeNames THEN Present("optional", SeqVal("journal_mode", chars))
    ELSE Absent("optional")

(***************************************************************************)
(* row_extractor: which overloads a specialization has                     *)
(***************************************************************************)
AllOverloads == ArithmeticTypes \cup StringTypes \cup {"wstring", "nullptr_t", "blob"}

\* whether row_extractor<T>::extract(const char*) can be called
RECURSIVE HasText(_)
HasText(T) ==
    CASE T.k \in AllOverloads \cup {"journal_mode"} -> TRUE
      [] T.k \in SmartPointers \cup {"optional"} -> HasText(T.of[1])
      [] OTHER -> FALSE

\* whether row_extractor<T>::extract(sqlite3_stmt*, int) can be called
RECURSIVE HasColumn(_)
HasColumn(T) ==
    CASE T.k \in AllOverloads \cup {"journal_mode"} -> TRUE
      [] T.k \in SmartPointers \cup {"optional"} -> HasColumn(T.of[1])
      [] T.k = "tuple" -> \A i \in 1..Len(T.of) : HasColumn(T.of[i])
      [] OTHER -> FALSE

\* whether row_extractor<T>::extract(sqlite3_value*) can be called
RECURSIVE HasValue(_)
HasValue(T) ==
    CASE T.k \in AllOverloads \cup {"pointer_arg"} -> TRUE
      [] T.k \in SmartPointers \cup {"optional"} -> HasValue(T.of[1])
      [] OTHER -> FALSE

\* whether row_extractor<T>::extract(char** argv) can be called
HasArgv(T) == T.k = "tuple" /\ \A i \in 1..Len(T.of) : HasText(T.of[i])

(***************************************************************************)
(* row_extractor<arithmetic>                                               *)
(***************************************************************************)
\* static_cast<V> of what the parser or the engine returned
CastTo(k, o) ==
    IF o.st # "ok" THEN o
    ELSE IF k \in RealTypes THEN Ok(RealVal(k, o.val.r))
    ELSE Ok(static_cast(k, o.val.n))

\* the parser of the int-or-smaller types used for every arithmetic type
ArithmeticText_AtoiOnly(k, columnText) ==
    {CastTo(k, o) : o \in atoi(columnText)}

ArithmeticText(k, columnText) ==
    LET tag == arithmetic_tag(k)
    IN CASE tag = "int_or_smaller_tag" -> {CastTo(k, o) : o \in atoi(columnText)}
         [] tag = "bigint_tag" -> {CastTo(k, o) : o \in atoll(columnText)}
         [] OTHER -> {CastTo(k, o) : o \in atof(columnText)}

ArithmeticColumn(k, row, columnIndex) ==
    LET tag == arithmetic_tag(k)
        c == Column(row, columnIndex)
    IN CASE tag = "int_or_smaller_tag" -> {CastTo(k, Ok(NumVal("int", sqlite3_int(c))))}
         [] tag = "bigint_tag" -> {CastTo(k, Ok(NumVal("long long", sqlite3_int64(c))))}
         [] OTHER -> {CastTo(k, Ok(RealVal("double", sqlite3_double(c))))}

ArithmeticValue(k, value) ==
    LET tag == arithmetic_tag(k)
    IN CASE tag = "int_or_smaller_tag" -> {CastTo(k, Ok(NumVal("int", sqlite3_int(value))))}
         [] tag = "bigint_tag" -> {CastTo(k, Ok(NumVal("long long", sqlite3_int64(value))))}
         [] OTHER -> {CastTo(k, Ok(RealVal("double", sqlite3_double(value))))}

(***************************************************************************)
(* row_extractor<std::string and types derived from it>                    *)
(***************************************************************************)
StringText(k, columnText) ==
    IF ~columnText.null THEN {Ok(SeqVal(k, columnText.chars))}
    ELSE {Ok(SeqVal(k, <<>>))}

StringColumn(k, row, columnIndex) ==
    LET cStr == sqlite3_text(Column(row, columnIndex))
    IN IF ~cStr.null THEN {Ok(SeqVal(k, cStr.chars))} ELSE {Ok(SeqVal(k, <<>>))}

StringValue(k, value) ==
    LET cStr == sqlite3_text(value)
    IN IF ~cStr.null THEN {Ok(SeqVal(k, cStr.chars))} ELSE {Ok(SeqVal(k, <<>>))}

(***************************************************************************)
(* row_extractor<std::wstring>                                             *)
(***************************************************************************)
WStringText(columnText) ==
    IF ~columnText.null THEN {from_bytes(columnText)}
    ELSE {Ok(SeqVal("wstring", <<>>))}

WStringColumn(row, columnIndex) ==
    LET cStr == sqlite3_text(Column(row, columnIndex))
    IN IF ~cStr.null THEN {from_bytes(cStr)} ELSE {Ok(SeqVal("wstring", <<>>))}

WStringValue(value) ==
    LET cStr == sqlite3_text16(value)
    IN IF ~cStr.null THEN WStringFromText16(cStr) ELSE {Ok(SeqVal("wstring", <<>>))}

(***************************************************************************)
(* row_extractor<nullptr_t>, row_extractor<std::vector<char>>,             *)
(* row_extractor<pointer_arg<P, T>>, row_extractor<journal_mode>           *)
(***************************************************************************)
NullptrExtract == {Ok(NumVal("nullptr_t", 0))}

BlobText(columnText) ==
    {Ok(SeqVal("blob", SubSeq(columnText.chars, 1,
                              IF ~columnText.null THEN strlen(columnText) ELSE 0)))}

\* the column's bytes measured with strlen
BlobColumn_Strlen(row, columnIndex) ==
    LET bytes == sqlite3_blob(Column(row, columnIndex))
    IN {Ok(SeqVal("blob", UpToNul(bytes)))}

BlobColumn(row, columnIndex) ==
    LET bytes == sqlite3_blob(Column(row, columnIndex))
        len == Len(sqlite3_blob(Column(row, columnIndex)))
    IN {Ok(SeqVal("blob", SubSeq(bytes, 1, len)))}

BlobValue(value) ==
    LET bytes == sqlite3_blob(value)
        len == Len(sqlite3_blob(value))
    IN {Ok(SeqVal("blob", SubSeq(bytes, 1, len)))}

\* the column text taken for the pointer: the overload not deleted
PointerArgText_NotDeleted(T, columnText) ==
    {Ok(NumVal("pointer_arg", IF columnText.null THEN 0 ELSE 1))}

PointerArgText(T, columnText) == {IllFormed}

PointerArgColumn(T, row, columnIndex) == {IllFormed}

PointerArgValue(T, value) == {Ok(NumVal("pointer_arg", sqlite3_value_pointer(value, T.tag)))}

\* a null text decoded to a default mode instead of thrown
JournalModeText_NullIsDefault(columnText) ==
    IF ~columnText.null
    THEN LET r == journal_mode_from_string(columnText.chars)
         IN IF r.n = 1 THEN {Ok(r.xs[1])}
            ELSE {Throw("incorrect_journal_mode_string")}
    ELSE {Ok(SeqVal("journal_mode", Bytes(<<"d", "e", "l", "e", "t", "e">>)))}

JournalModeText(columnText) ==
    IF ~columnText.null
    THEN LET r == journal_mode_from_string(columnText.chars)
         IN IF r.n = 1 THEN {Ok(r.xs[1])}
            ELSE {Throw("incorrect_journal_mode_string")}
    ELSE {Throw("incorrect_journal_mode_string")}

JournalModeColumn(row, columnIndex) ==
    LET cStr == sqlite3_text(Column(row, columnIndex))
    IN JournalModeText(cStr)

(***************************************************************************)
(* The wrapping specializations and the dispatch on the type               *)
(***************************************************************************)
RECURSIVE ExtractText(_, _)
RECURSIVE ExtractColumn(_, _, _)
RECURSIVE ExtractValue(_, _)

\* the wrapper's result from the result r of the contained type's extract,
\* which it invoked as `call`
Wrapped(k, r, call) ==
    [out |-> IF r.out.st = "ok" THEN Ok(Present(k, r.out.val)) ELSE r.out,
     calls |-> <<call>> \o r.calls]

\* row_extractor<std::unique_ptr<T>> and row_extractor<std::shared_ptr<T>>
\* the contained type decoded from the text without the null check
SmartPointerText_NoNullCheck(T, columnText) ==
    {Wrapped(T.k, r, Call(T.of[1], "text", columnText.null, -1))
       : r \in ExtractText(T.of[1], columnText)}

SmartPointerText(T, columnText) ==
    IF ~columnText.null
    THEN {Wrapped(T.k, r, Call(T.of[1], "text", columnText.null, -1))
            : r \in ExtractText(T.of[1], columnText)}
    ELSE {Result(Ok(Absent(T.k)))}

SmartPointerColumn(T, row, columnIndex) ==
    LET type == sqlite3_type(Column(row, columnIndex))
    IN IF type # "NULL"
       THEN {Wrapped(T.k, r, Call(T.of[1], "column", type = "NULL", columnIndex))
               : r \in ExtractColumn(T.of[1], row, columnIndex)}
       ELSE {Result(Ok(Absent(T.k)))}

\* the boxed value tested through its text instead of its type
SmartPointerValue_TestsText(T, value) ==
    IF sqlite3_text(value).chars # <<>>
    THEN {Wrapped(T.k, r, Call(T.of[1], "value", sqlite3_type(value) = "NULL", -1))
            : r \in ExtractValue(T.of[1], value)}
    ELSE {Result(Ok(Absent(T.k)))}

SmartPointerValue(T, value) ==
    LET type == sqlite3_type(value)
    IN IF type # "NULL"
       THEN {Wrapped(T.k, r, Call(T.of[1], "value", type = "NULL", -1))
               : r \in ExtractValue(T.of[1], value)}
       ELSE {Result(Ok(Absent(T.k)))}

\* row_extractor<std::optional<T>>
OptionalText(T, columnText) ==
    IF ~columnText.null
    THEN {Wrapped(T.k, r, Call(T.of[1], "text", columnText.null, -1))
            : r \in ExtractText(T.of[1], columnText)}
    ELSE {Result(Ok(Absent(T.k)))}

\* optional<T> decoded without looking at the column's type
OptionalColumn_NoNullCheck(T, row, columnIndex) ==
    {Wrapped(T.k, r, Call(T.of[1], "column",
                          sqlite3_type(Column(row, columnIndex)) = "NULL", columnIndex))
       : r \in ExtractColumn(T.of[1], row, columnIndex)}

OptionalColumn(T, row, columnIndex) ==
    LET type == sqlite3_type(Column(row, columnIndex))
    IN IF type # "NULL"
       THEN {Wrapped(T.k, r, Call(T.of[1], "column", type = "NULL", columnIndex))
               : r \in ExtractColumn(T.of[1], row, columnIndex)}
       ELSE {Result(Ok(Absent(T.k)))}

OptionalValue(T, value) ==
    LET type == sqlite3_type(value)
    IN IF type # "NULL"
       THEN {Wrapped(T.k, r, Call(T.of[1], "value", type = "NULL", -1))
               : r \in ExtractValue(T.of[1], value)}
       ELSE {Result(Ok(Absent(T.k)))}

\* the braced list {e0, e1, ...} of a tuple, evaluated left to right: rs[i]
\* are the possible results of element i and calls[i] its invocation; the
\* first element that does not return ends the construction
RECURSIVE TupleInit(_, _)
TupleInit(rs, calls) ==
    IF rs = <<>> THEN {Result(Ok(TupleVal(<<>>)))}
    ELSE UNION {
        IF h.out.st # "ok"
        THEN {[out |-> h.out, calls |-> <<Head(calls)>> \o h.calls]}
        ELSE {[out |-> IF t.out.st = "ok"
                       THEN Ok(TupleVal(<<h.out.val>> \o t.out.val.xs))
                       ELSE t.out,
               calls |-> <<Head(calls)>> \o h.calls \o t.calls]
                : t \in TupleInit(Tail(rs), Tail(calls))}
        : h \in Head(rs)}

\* the tuple read from the columns starting at columnIndex
TupleColumn_FromColumnIndex(T, row, columnIndex) ==
    TupleInit([i \in 1..Len(T.of) |-> ExtractColumn(T.of[i], row, columnIndex + i - 1)],
              [i \in 1..Len(T.of) |->
                  Call(T.of[i], "column",
                       sqlite3_type(Column(row, columnIndex + i - 1)) = "NULL",
                       columnIndex + i - 1)])

\* row_extractor<std::tuple<Args...>>::extract(sqlite3_stmt*, int): element
\* Idx from column Idx
TupleColumn(T, row, columnIndex) ==
    TupleInit([i \in 1..Len(T.of) |-> ExtractColumn(T.of[i], row, i - 1)],
              [i \in 1..Len(T.of) |->
                  Call(T.of[i], "column", sqlite3_type(Column(row, i - 1)) = "NULL", i - 1)])

\* row_extractor<std::tuple<Args...>>::extract(char** argv): element Idx
\* from argv[Idx]
TupleArgv(T, argv) ==
    TupleInit([i \in 1..Len(T.of) |-> ExtractText(T.of[i], argv[i])],
              [i \in 1..Len(T.of) |-> Call(T.of[i], "text", argv[i].null, i - 1)])

\* row_extractor<V>::extract(const char* columnText)
ExtractText(T, columnText) ==
    IF ~HasText(T) THEN IF T.k = "pointer_arg" THEN Results(PointerArgText(T, columnText))
                        ELSE {Result(IllFormed)}
    ELSE CASE T.k \in ArithmeticTypes -> Results(ArithmeticText(T.k, columnText))
           [] T.k \in StringTypes -> Results(StringText(T.k, columnText))
           [] T.k = "wstring" -> Results(WStringText(columnText))
           [] T.k = "nullptr_t" -> Results(NullptrExtract)
           [] T.k = "blob" -> Results(BlobText(columnText))
           [] T.k = "journal_mode" -> Results(JournalModeText(columnText))
           [] T.k \in SmartPointers -> SmartPointerText(T, columnText)
           [] T.k = "optional" -> OptionalText(T, columnText)

\* row_extractor<V>::extract(sqlite3_stmt* stmt, int columnIndex)
ExtractColumn(T, row, columnIndex) ==
    IF ~HasColumn(T) THEN IF T.k = "pointer_arg"
                          THEN Results(PointerArgColumn(T, row, columnIndex))
                          ELSE {Result(IllFormed)}
    ELSE CASE T.k \in ArithmeticTypes -> Results(ArithmeticColumn(T.k, row, columnIndex))
           [] T.k \in StringTypes -> Results(StringColumn(T.k, row, columnIndex))
           [] T.k = "wstring" -> Results(WStringColumn(row, columnIndex))
           [] T.k = "nullptr_t" -> Results(NullptrExtract)
           [] T.k = "blob" -> Results(BlobColumn(row, columnIndex))
           [] T.k = "journal_mode" -> Results(JournalModeColumn(row, columnIndex))
           [] T.k \in SmartPointers -> SmartPointerColumn(T, row, columnIndex)
           [] T.k = "optional" -> OptionalColumn(T, row, columnIndex)
           [] T.k = "tuple" -> TupleColumn(T, row, columnIndex)

\* row_extractor<V>::extract(sqlite3_value* value)
ExtractValue(T, value) ==
    IF ~HasValue(T) THEN {Result(IllFormed)}
    ELSE CASE T.k \in ArithmeticTypes -> Results(ArithmeticValue(T.k, value))
           [] T.k \in StringTypes -> Results(StringValue(T.k, value))
           [] T.k = "wstring" -> Results(WStringValue(value))
           [] T.k = "nullptr_t" -> Results(NullptrExtract)
           [] T.k = "blob" -> Results(BlobValue(value))
           [] T.k = "pointer_arg" -> Results(PointerArgValue(T, value))
           [] T.k \in SmartPointers -> SmartPointerValue(T, value)
           [] T.k = "optional" -> OptionalValue(T, value)

\* row_extractor<std::tuple<Args...>>::extract(char** argv)
ExtractArgv(T, argv) ==
    IF ~HasArgv(T) THEN {Result(IllFormed)} ELSE TupleArgv(T, argv)

(***************************************************************************)
(* The state machine.  A statement is positioned on a result row (stmt);   *)
(* a value of type V is decoded from column `column` of it through each    *)
(* of the overloads, each at most once: from the column's text as          *)
(* sqlite3_exec hands it to a callback, from the statement's column, from  *)
(* the column's value boxed as a function argument, and (a tuple) from the *)
(* callback's argv.  res holds what each overload produced.                *)
(***************************************************************************)
\* the values stored in the column that scalar types are decoded from
Cells ==
    {NullCell, PointerCell(1, "carray"),
     IntCell(0), IntCell(42), IntCell(-7), IntCell(IntMax + 1), IntCell(BigMin),
     RealCell(25, -1), RealCell(1, -5),
     TextCell(<<>>), TextCell(<<52, 50>>), TextCell(<<32, 45, 55, 120>>),
     TextCell(Bytes(<<"w", "a", "l">>)), TextCell(Bytes(<<"b", "o", "g", "u", "s">>)),
     TextCell(<<195, 169>>), TextCell(<<255>>),
     BlobCell(<<>>), BlobCell(<<1, 0, 2>>)}

\* the values stored in the rows that tuples are decoded from
TupleCells ==
    {NullCell, IntCell(42), IntCell(-7), TextCell(Bytes(<<"w", "a", "l">>)),
     BlobCell(<<1, 0, 2>>)}

TupleRows == UNION {[1..n -> TupleCells] : n \in 1..MaxCols}

WrappedTypes ==
    {Type("int"), Type("bool"), Type("double"), Type("string"), Type("blob"),
     Type("journal_mode"), PointerArg("carray"),
     Wrapper("unique_ptr", Type("int"))}

ScalarTypes ==
    {Type(k) : k \in ArithmeticTypes \cup StringTypes
                      \cup {"wstring", "nullptr_t", "blob", "journal_mode",
                            "pointer_binding", "unregistered"}}
    \cup {PointerArg("carray"), PointerArg("other")}
    \cup {Wrapper(k, T) : k \in SmartPointers \cup {"optional"}, T \in WrappedTypes}

TupleTypes ==
    {TupleOf(<<Type("int")>>),
     TupleOf(<<Type("int"), Type("string")>>),
     TupleOf(<<Type("string"), Type("int")>>),
     TupleOf(<<Wrapper("optional", Type("int")), Type("blob")>>),
     TupleOf(<<Type("journal_mode"), Type("long long")>>),
     TupleOf(<<Type("int"), Type("string"), Type("blob")>>),
     TupleOf(<<PointerArg("carray"), Type("int")>>)}

Paths == {"text", "column", "value", "argv"}

\* no call of the overload yet
None == Result([st |-> "none", val |-> NoVal, err |-> "none"])

\* the caller's result object (*(R*)data) before any callback
InitialData == [NoVal EXCEPT !.t = "initial"]

\* what became of a call of the callback: not called yet, returned rc,
\* left by an exception, or ended the process
NotCalled == [st |-> "none", rc |-> 0]
Returned(rc) == [st |-> "returned", rc |-> rc]
Thrown == [st |-> "throw", rc |-> 0]
Crashed == [st |-> "crash", rc |-> 0]

Init ==
    /\ data = InitialData
    /\ ret = NotCalled
    /\ rows = <<>>
    /\ \/ /\ V \in ScalarTypes
          /\ stmt \in {<<c>> : c \in Cells}
          /\ column = 0
       \/ /\ V \in TupleTypes
          /\ stmt \in {row \in TupleRows : Len(row) >= Len(V.of)}
          /\ column \in 0..(Len(stmt) - 1)
    /\ res = [p \in Paths |-> None]

\* extract(const char* columnText) on argv[column] of the callback
ExtractFromColumnText ==
    /\ V.k # "tuple"
    /\ res["text"] = None
    /\ \E r \in ExtractText(V, Argv(stmt)[column + 1]) :
          res' = [res EXCEPT !["text"] = r]
    /\ UNCHANGED <<stmt, V, column, data, ret, rows>>

\* extract(sqlite3_stmt* stmt, int columnIndex)
ExtractFromStatement ==
    /\ res["column"] = None
    /\ \E r \in ExtractColumn(V, stmt, column) :
          res' = [res EXCEPT !["column"] = r]
    /\ UNCHANGED <<stmt, V, column, data, ret, rows>>

\* extract(sqlite3_value* value) on the column's value
ExtractFromBoxedValue ==
    /\ V.k # "tuple"
    /\ res["value"] = None
    /\ \E r \in ExtractValue(V, Column(stmt, column)) :
          res' = [res EXCEPT !["value"] = r]
    /\ UNCHANGED <<stmt, V, column, data, ret, rows>>

\* extract(char** argv) on the callback's argv
ExtractFromArgv ==
    /\ V.k = "tuple"
    /\ res["argv"] = None
    /\ \E r \in ExtractArgv(V, Argv(stmt)) :
          res' = [res EXCEPT !["argv"] = r]
    /\ UNCHANGED <<stmt, V, column, data, ret, rows>>

Next ==
    \/ ExtractFromColumnText
    \/ ExtractFromStatement
    \/ ExtractFromBoxedValue
    \/ ExtractFromArgv

Spec == Init /\ [][Next]_vars

(***************************************************************************)
(* The single-value row callback.  sqlite3_exec runs a query and hands     *)
(* each result row to extract_single_value<V> as (argc, argv) together     *)
(* with the caller's result object (data); rows are the rows handed over   *)
(* so far and ret is what became of the last call.  A call that does not   *)
(* return ends the query.                                                  *)
(***************************************************************************)
\* the types extract_single_value<R> can be instantiated with: those whose
\* row_extractor has an extract(const char*)
CallbackTypes == {T \in ScalarTypes : HasText(T)}

\* the result rows handed to the callback
ExecRows ==
    {<<>>,
     <<NullCell>>, <<IntCell(42)>>, <<IntCell(-7)>>,
     <<TextCell(Bytes(<<"w", "a", "l">>))>>,
     <<TextCell(Bytes(<<"b", "o", "g", "u", "s">>))>>,
     <<TextCell(<<255>>)>>, <<BlobCell(<<1, 0, 2>>)>>,
     <<IntCell(42), TextCell(Bytes(<<"o", "f", "f">>))>>,
     <<TextCell(Bytes(<<"o", "f", "f">>)), IntCell(-7)>>}

\* decodes argv[argc] (the last column) instead of argv[0]
extract_single_value_LastColumn(R, d, argc, argv) ==
    IF argc # 0
    THEN {IF r.out.st = "ok" THEN [data |-> r.out.val, ret |-> Returned(0)]
          ELSE IF r.out.st = "throw" THEN [data |-> d, ret |-> Thrown]
          ELSE [data |-> d, ret |-> Crashed] : r \in ExtractText(R, argv[argc])}
    ELSE {[data |-> d, ret |-> Returned(0)]}

\* extract_single_value<R>(data, argc, argv, char**): the caller's object
\* and what became of the call.  The assignment to res happens only after
\* extract has returned.
extract_single_value(R, d, argc, argv) ==
    IF argc # 0
    THEN {IF r.out.st = "ok" THEN [data |-> r.out.val, ret |-> Returned(0)]
          ELSE IF r.out.st = "throw" THEN [data |-> d, ret |-> Thrown]
          ELSE [data |-> d, ret |-> Crashed] : r \in ExtractText(R, argv[1])}
    ELSE {[data |-> d, ret |-> Returned(0)]}

InitExec ==
    /\ V \in CallbackTypes
    /\ stmt = <<>>
    /\ column = 0
    /\ res = [p \in Paths |-> None]
    /\ data = InitialData
    /\ ret = NotCalled
    /\ rows = <<>>

\* sqlite3_exec steps to the next row and calls the callback on it
ExecRow ==
    /\ ret.st \in {"none", "returned"}
    /\ Len(rows) < MaxRows
    /\ \E row \in ExecRows :
          \E o \in extract_single_value(V, data, Len(row), Argv(row)) :
             /\ stmt' = row
             /\ rows' = Append(rows, row)
             /\ data' = o.data
             /\ ret' = o.ret
    /\ UNCHANGED <<V, column, res>>

NextExec == ExecRow

SpecExec == InitExec /\ [][NextExec]_vars

\* the stored value the decode is about, and what has been decoded
Cell == Column(stmt, column)
Done(p) == res[p] # None

ScalarPaths == {"text", "column", "value"}

\* the C string of the stored value's text
CellText == UpToNul(CellBytes(Cell))

(***************************************************************************)
(* C1: arithmetic codec, agreement of the three decode paths               *)
(***************************************************************************)
\* C1 as stated: for every arithmetic type and every stored value, the
\* overloads that have decoded the value (from its text, from the
\* statement's column, from the boxed value) and returned, returned the
\* same value.
C1_AllPathsAgree ==
    V.k \in ArithmeticTypes =>
        \A p, q \in ScalarPaths :
            /\ Done(p) /\ res[p].out.st = "ok"
            /\ Done(q) /\ res[q].out.st = "ok"
            => res[p].out.val = res[q].out.val

\* C1 amended: the column overload and the boxed-value overload agree on
\* every stored value; and on every stored INTEGER that the type's parser
\* can represent (an int for the int-or-smaller types) all three overloads
\* return the same value without failing -- for int, the stored integer.
C1_PathsAgreeOnIntegers ==
    V.k \in ArithmeticTypes =>
        /\ Done("column") /\ Done("value") => res["column"] = res["value"]
        /\ (/\ Cell.type = "INTEGER"
            /\ V.k \in IntOrSmallerTypes => Cell.i \in IntMin..IntMax)
           => \A p, q \in ScalarPaths :
                 Done(p) /\ Done(q) =>
                    /\ res[p] = res[q]
                    /\ res[p].out.st = "ok"
                    /\ V.k \in {"int", "long long"} => res[p].out.val.n = Cell.i

\* the integer 42 decoded as int through all three overloads
C1_Witness ==
    /\ V = Type("int")
    /\ Cell = IntCell(42)
    /\ \A p \in ScalarPaths : res[p] = Result(Ok(NumVal("int", 42)))

(***************************************************************************)
(* C2: arithmetic codec, SQL NULL                                          *)
(***************************************************************************)
\* C2: for every arithmetic type and each of the three overloads, decoding
\* a SQL NULL returns the zero of the type and is not an error.
C2_NullDecodesToZero ==
    V.k \in ArithmeticTypes /\ Cell.type = "NULL" =>
        \A p \in ScalarPaths :
            Done(p) => /\ res[p].out.st = "ok"
                       /\ res[p].out.val.n = 0
                       /\ res[p].out.val.r = RealZero

(***************************************************************************)
(* C3: text codecs                                                         *)
(***************************************************************************)
\* C3: for std::string, a type derived from it and std::wstring, and each
\* of the three overloads, the decode never fails; a SQL NULL decodes to
\* the empty string and a text to exactly that text.
C3_TextDecodeNeverFails ==
    V.k \in StringTypes \cup {"wstring"} =>
        \A p \in ScalarPaths :
            Done(p) =>
               /\ res[p].out.st = "ok"
               /\ res[p].out.val.s =
                     IF Cell.type = "NULL" THEN <<>>
                     ELSE IF V.k = "wstring" THEN Utf8ToUtf16(CellText, 1, FALSE).units
                     ELSE CellText

\* the possible results of T's own decoder on the input of overload p
OwnDecode(T, p) ==
    CASE p = "text" -> ExtractText(T, Argv(stmt)[column + 1])
      [] p = "column" -> ExtractColumn(T, stmt, column)
      [] OTHER -> ExtractValue(T, Cell)

\* whether T's decoder has overload p
HasOverload(T, p) ==
    CASE p = "text" -> HasText(T)
      [] p = "column" -> HasColumn(T)
      [] OTHER -> HasValue(T)

(***************************************************************************)
(* C4: optional codec                                                      *)
(***************************************************************************)
\* C4: for every wrapped type T and each overload, optional<T> decodes to
\* nullopt exactly when the stored value is SQL NULL; for a value that is
\* not NULL it ends as T's own decoder ends on the same input through the
\* same overload, and when that returns a value the optional holds it.
C4_OptionalAbsentIffNull ==
    V.k = "optional" =>
        \A p \in ScalarPaths :
            Done(p) /\ HasOverload(V.of[1], p) =>
               /\ res[p].out = Ok(Absent("optional")) <=> Cell.type = "NULL"
               /\ Cell.type # "NULL" =>
                     \E r \in OwnDecode(V.of[1], p) :
                        /\ r.out.st = "ok" =>
                              /\ res[p].out.st = "ok"
                              /\ res[p].out.val.n = 1
                              /\ res[p].out.val.xs = <<r.out.val>>
                        /\ r.out.st # "ok" => res[p].out = r.out

\* optional<int> decoded from the integer 42 through all three overloads
C4_Witness ==
    /\ V = Wrapper("optional", Type("int"))
    /\ Cell = IntCell(42)
    /\ \A p \in ScalarPaths : res[p].out = Ok(Present("optional", NumVal("int", 42)))

(***************************************************************************)
(* C5: pointer_arg codec                                                   *)
(***************************************************************************)
\* C5: a pointer_arg is decoded only from a boxed value: the overloads for
\* column text and for a statement's column are rejected, on pointer_arg
\* and on the primary template (whose boxed-value overload is rejected
\* too); from a boxed value pointer_arg returns the pointer the value
\* carries under the codec's type tag (null when the tags differ).
C5_PointerOnlyFromBoxedValue ==
    /\ V.k \in {"pointer_arg", "unregistered"} =>
          /\ Done("text") => res["text"].out = IllFormed
          /\ Done("column") => res["column"].out = IllFormed
    /\ V.k = "unregistered" /\ Done("value") => res["value"].out = IllFormed
    /\ V.k = "pointer_arg" /\ Done("value") =>
          res["value"].out =
             Ok(NumVal("pointer_arg",
                       IF Cell.ptr # 0 /\ Cell.tag = V.tag THEN Cell.ptr ELSE 0))

\* a pointer bound under the codec's tag: rejected from text and column,
\* returned from the boxed value
C5_Witness ==
    /\ V = PointerArg("carray")
    /\ Cell = PointerCell(1, "carray")
    /\ res["text"].out = IllFormed
    /\ res["column"].out = IllFormed
    /\ res["value"].out = Ok(NumVal("pointer_arg", 1))

(***************************************************************************)
(* C6: journal_mode codec                                                  *)
(***************************************************************************)
\* C6: journal_mode decodes exactly the mode names; any other text and a
\* null text throw incorrect_journal_mode_string, never returning a value;
\* the statement's column ends as the text overload does on the column's
\* text.
C6_JournalModeStrict ==
    V.k = "journal_mode" =>
        /\ \A p \in {"text", "column"} :
              Done(p) =>
                 IF Cell.type # "NULL" /\ CellText \in JournalModeNames
                 THEN res[p].out = Ok(SeqVal("journal_mode", CellText))
                 ELSE res[p].out = Throw("incorrect_journal_mode_string")
        /\ Done("text") /\ Done("column") => res["text"] = res["column"]

\* "bogus" is refused by both overloads
C6_Witness ==
    /\ V = Type("journal_mode")
    /\ Cell = TextCell(Bytes(<<"b", "o", "g", "u", "s">>))
    /\ res["text"].out = Throw("incorrect_journal_mode_string")
    /\ res["column"].out = Throw("incorrect_journal_mode_string")

(***************************************************************************)
(* C7: tuple codec                                                         *)
(***************************************************************************)
\* C7: a tuple <A0..A(N-1)> is decoded by position: element i is decoded
\* by Ai's own codec from column i of the statement, or from argv[i] of the
\* callback, whatever the columnIndex argument is; the tuple holds the N
\* elements in order, or ends as the first element that fails.
C7_TuplePositional ==
    V.k = "tuple" =>
        /\ Done("column") /\ HasColumn(V) =>
              /\ res["column"].out.st = "ok" =>
                    /\ Len(res["column"].out.val.xs) = Len(V.of)
                    /\ \A i \in 1..Len(V.of) :
                          Ok(res["column"].out.val.xs[i])
                             \in {e.out : e \in ExtractColumn(V.of[i], stmt, i - 1)}
              /\ res["column"].out.st # "ok" =>
                    \E i \in 1..Len(V.of) :
                       /\ res["column"].out
                             \in {e.out : e \in ExtractColumn(V.of[i], stmt, i - 1)}
                       /\ \A j \in 1..(i - 1) :
                             \E e \in ExtractColumn(V.of[j], stmt, j - 1) : e.out.st = "ok"
              /\ \A c \in 1..Len(res["column"].calls) :
                    res["column"].calls[c].idx \in 0..(Len(V.of) - 1)
        /\ Done("argv") /\ HasArgv(V) =>
              /\ res["argv"].out.st = "ok" =>
                    /\ Len(res["argv"].out.val.xs) = Len(V.of)
                    /\ \A i \in 1..Len(V.of) :
                          Ok(res["argv"].out.val.xs[i])
                             \in {e.out : e \in ExtractText(V.of[i], sqlite3_text(stmt[i]))}
              /\ res["argv"].out.st # "ok" =>
                    \E i \in 1..Len(V.of) :
                       /\ res["argv"].out
                             \in {e.out : e \in ExtractText(V.of[i], sqlite3_text(stmt[i]))}
                       /\ \A j \in 1..(i - 1) :
                             \E e \in ExtractText(V.of[j], sqlite3_text(stmt[j])) :
                                e.out.st = "ok"

\* <int, string> decoded from the row (42, "wal") with columnIndex 1
C7_Witness ==
    /\ V = TupleOf(<<Type("int"), Type("string")>>)
    /\ stmt = <<IntCell(42), TextCell(Bytes(<<"w", "a", "l">>))>>
    /\ column = 1
    /\ res["column"].out
          = Ok(TupleVal(<<NumVal("int", 42), SeqVal("string", Bytes(<<"w", "a", "l">>))>>))
    /\ res["argv"].out = res["column"].out

(***************************************************************************)
(* C8: smart pointer codec                                                 *)
(***************************************************************************)
\* a value with the wrapper's name replaced by k
Renamed(o, k) == IF o.st = "ok" THEN Ok([o.val EXCEPT !.t = k]) ELSE o

\* C8: unique_ptr<T> and shared_ptr<T> decode as optional<T> does: on each
\* overload the pointer is empty exactly when optional<T> is absent on the
\* same input, and else points to the value the optional would hold (or
\* fails as the optional would).
C8_SmartPointerAsOptional ==
    V.k \in SmartPointers =>
        \A p \in ScalarPaths :
            Done(p) =>
               /\ Renamed(res[p].out, "optional")
                     \in {r.out : r \in OwnDecode(Wrapper("optional", V.of[1]), p)}
               /\ HasOverload(V.of[1], p) =>
                     (res[p].out = Ok(Absent(V.k)) <=> Cell.type = "NULL")

\* shared_ptr<string> decoded from NULL: empty through all three overloads
C8_Witness ==
    /\ V = Wrapper("shared_ptr", Type("string"))
    /\ Cell = NullCell
    /\ \A p \in ScalarPaths : res[p].out = Ok(Absent("shared_ptr"))

(***************************************************************************)
(* C9: blob codec                                                          *)
(***************************************************************************)
\* C9 as stated: on each of the three overloads std::vector<char> decodes
\* to the stored bytes, zero bytes included, and to no bytes for NULL.
C9_BlobExactOnAllPaths ==
    V.k = "blob" /\ Cell.type \in {"BLOB", "TEXT", "NULL"} =>
        \A p \in ScalarPaths :
            Done(p) => res[p].out = Ok(SeqVal("blob", Cell.z))

\* C9 amended: the statement's column and the boxed value decode to the
\* stored bytes, zero bytes included, in the stored length; the column text
\* decodes to the bytes before the first zero byte; NULL decodes to no
\* bytes on all three.
C9_BlobBytes ==
    V.k = "blob" /\ Cell.type \in {"BLOB", "TEXT", "NULL"} =>
        /\ \A p \in {"column", "value"} :
              Done(p) => /\ res[p].out = Ok(SeqVal("blob", Cell.z))
                         /\ Len(res[p].out.val.s) = Len(Cell.z)
        /\ Done("text") =>
              /\ res["text"].out.st = "ok"
              /\ \E n \in 0..Len(Cell.z) :
                    /\ res["text"].out.val = SeqVal("blob", SubSeq(Cell.z, 1, n))
                    /\ \A i \in 1..n : Cell.z[i] # 0
                    /\ n < Len(Cell.z) => Cell.z[n + 1] = 0

\* a blob with a zero byte inside: whole from column and value, cut at the
\* zero byte from the text
C9_Witness ==
    /\ V = Type("blob")
    /\ Cell = BlobCell(<<1, 0, 2>>)
    /\ res["column"].out = Ok(SeqVal("blob", <<1, 0, 2>>))
    /\ res["value"].out = Ok(SeqVal("blob", <<1, 0, 2>>))
    /\ res["text"].out = Ok(SeqVal("blob", <<1>>))

(***************************************************************************)
(* C10: the wrappers decode the contained type only from a non-NULL value  *)
(***************************************************************************)
\* C10: on every overload of optional and of the smart pointers, the
\* contained type's decoder is invoked only on a value that is not NULL
\* (never on a null text pointer, a NULL column or a NULL value): for a
\* NULL the wrapper returns empty having invoked nothing, and otherwise it
\* invokes the contained type's decoder first, on that value.
C10_InnerOnlyOnNonNull ==
    V.k \in SmartPointers \cup {"optional"} =>
        \A p \in ScalarPaths :
            Done(p) /\ HasOverload(V.of[1], p) =>
               /\ \A c \in 1..Len(res[p].calls) : ~res[p].calls[c].null
               /\ Cell.type = "NULL" =>
                     res[p].calls = <<>> /\ res[p].out = Ok(Absent(V.k))
               /\ Cell.type # "NULL" =>
                     /\ res[p].calls # <<>>
                     /\ res[p].calls[1].V = V.of[1]
                     /\ res[p].calls[1].path = p

\* optional<int> decoded from a null column text and from a NULL column:
\* empty, and the int decoder (atoi of a null pointer) was not invoked
C10_Witness ==
    /\ V = Wrapper("optional", Type("int"))
    /\ Cell = NullCell
    /\ res["text"] = Result(Ok(Absent("optional")))
    /\ res["column"] = Result(Ok(Absent("optional")))

(***************************************************************************)
(* C11: the single-value row callback                                      *)
(***************************************************************************)
\* the last of the rows that had at least one column (<<>> if none had)
RECURSIVE LastRowWithColumns(_)
LastRowWithColumns(rs) ==
    IF rs = <<>> THEN <<>>
    ELSE IF Len(rs[Len(rs)]) > 0 THEN rs[Len(rs)]
    ELSE LastRowWithColumns(SubSeq(rs, 1, Len(rs) - 1))

\* the outcomes of the text-path decode of the first column of a row
FirstColumnDecodes(row) == {r.out : r \in ExtractText(V, Argv(row)[1])}

\* the values the caller's object may hold after the rows rs: the decode
\* of the first column of the last row with columns, or the initial value
DataAfter(rs) ==
    IF LastRowWithColumns(rs) = <<>> THEN {InitialData}
    ELSE {o.val : o \in {x \in FirstColumnDecodes(LastRowWithColumns(rs)) :
                                x.st = "ok"}}

\* C11 as stated: every call of extract_single_value returns 0, and after
\* any sequence of calls the caller's object holds the text-path decode of
\* the first column of the last row that had a column, or its initial
\* value if no row had one (a call with argc = 0 leaves it as it was).
C11_CallbackAlwaysReturnsZero ==
    rows # <<>> => ret = Returned(0) /\ data \in DataAfter(rows)

\* C11 where the decode returns: a call that returns, returns 0 and leaves
\* in the caller's object the decode of the first column of the last row
\* that had a column (the initial value if none had); a call that does not
\* return was given a row with a column whose decode does not return, and
\* leaves the caller's object as the rows before it left it.
C11_CallbackWhenDecodeReturns ==
    /\ rows = <<>> <=> ret = NotCalled
    /\ rows = <<>> => data = InitialData
    /\ ret.st = "returned" => ret.rc = 0 /\ data \in DataAfter(rows)
    /\ ret.st \in {"throw", "crash"} =>
          /\ Len(stmt) > 0
          /\ stmt = rows[Len(rows)]
          /\ \E o \in FirstColumnDecodes(stmt) : o.st = ret.st
          /\ data \in DataAfter(SubSeq(rows, 1, Len(rows) - 1))

\* a row of two columns was decoded into the caller's object, and a later
\* call with argc = 0 returned and left it there
C11_Witness ==
    /\ Len(rows) = 2
    /\ Len(rows[1]) = 2
    /\ rows[2] = <<>>
    /\ ret = Returned(0)
    /\ data # InitialData
    /\ data \in DataAfter(<<rows[1]>>)

====
